---- MODULE Spec2Model ----
(***************************************************************************)
(* A model of the separate-chaining hash map of src/src/hashmap.rs, of its *)
(* configuration layer src/src/hashmap/options.rs and of its three views,  *)
(* src/src/hashmap/iter.rs, iter_mut.rs and into_iter.rs, and of the stack *)
(* src/src/linked_list.rs with its view src/src/linked_list/iter.rs.       *)
(*                                                                         *)
(* Rust values are rendered as follows.                                    *)
(*   Option<T>      None is <<>>, Some(x) is <<x>>                          *)
(*   Vec<T>         a sequence; Rust index i is TLA+ index i + 1            *)
(*   Box<T>, &T     the value referred to                                   *)
(*   f64            a ratio [num, den] of integers with den > 0; every      *)
(*                  load factor used is a dyadic rational, so the f64       *)
(*                  product capacity * load_factor is exact                 *)
(*   u64 -> usize   lossless on the 64-bit targets the crate is built for   *)
(***************************************************************************)
EXTENDS Integers, Sequences, FiniteSets, TLC

\* ------------------------------------------------------------------ bounds
NumKeys == 3
MaxResize == 2

\* K is any Hash + Eq type: keys are numbered. V is an unconstrained type
\* parameter, so the code can only move values, never inspect them: two
\* values tell a stored value from the one that replaces it.
Keys == 1..NumKeys
Values == {1, 2}

\* ------------------------------------------------------- options.rs
DEFAULT_CAPACITY == 16
DEFAULT_LOAD_FACTOR == [num |-> 3, den |-> 4]
DEFAULT_DYNAMIC_RESIZING == TRUE

None == <<>>
Some(x) == <<x>>
is_some(o) == Len(o) = 1
unwrap(o) == o[1]
unwrap_or(o, d) == IF is_some(o) THEN unwrap(o) ELSE d

Ratio(n, d) == [num |-> n, den |-> d]

\* The Options values handed to validate: the configurations of the tests of
\* hashmap.rs and options.rs (at smaller capacities), one with capacity 0,
\* and two that validate rejects.
Opts(c, lf, dr) ==
    [initial_capacity |-> c, load_factor |-> lf, dynamic_resizing |-> dr]

OptionsInputs ==
    {Opts(Some(4), Some(Ratio(3, 4)), Some(TRUE)),
     Opts(Some(4), Some(Ratio(1, 2)), Some(TRUE)),
     Opts(Some(1), Some(Ratio(1, 2)), None),
     Opts(Some(2), Some(Ratio(1, 2)), Some(FALSE)),
     Opts(Some(0), None, Some(FALSE)),
     Opts(Some(4), Some(Ratio(-1, 2)), Some(TRUE)),
     Opts(None, Some(Ratio(0, 1)), None)}

\* Mutant of validate_errors: only a negative load factor is an error.
validate_errors_negative_only(o) ==
    IF is_some(o.load_factor) /\ unwrap(o.load_factor).num < 0
    THEN <<"Load factor cannot be zero or less">>
    ELSE <<>>

\* Options::validate: the error list, and the configuration when it is empty.
validate_errors(o) ==
    IF is_some(o.load_factor) /\ unwrap(o.load_factor).num <= 0
    THEN <<"Load factor cannot be zero or less">>
    ELSE <<>>

validate(o) ==
    LET errors == validate_errors(o) IN
    IF errors = <<>>
    THEN [ok |-> TRUE,
          errors |-> <<>>,
          value |-> Some([initial_capacity |->
                              unwrap_or(o.initial_capacity, DEFAULT_CAPACITY),
                          load_factor |->
                              unwrap_or(o.load_factor, DEFAULT_LOAD_FACTOR),
                          dynamic_resizing |->
                              unwrap_or(o.dynamic_resizing,
                                        DEFAULT_DYNAMIC_RESIZING)])]
    ELSE [ok |-> FALSE, errors |-> errors, value |-> None]

\* ------------------------------------------------------------ hashmap.rs
VARIABLES
    items,      \* HashMap.items: Vec<Vec<Entry<K, V>>>
    size,       \* HashMap.size
    options,    \* HashMap.options: ValidatedOptions
    digest,     \* the hash function: key -> 64-bit digest, fixed for the run
    inserted,   \* history: the keys that a put has been called with
    pc,         \* the client's position: "options" (an Options value is
                \* built), "validated" (validate has returned), "map" (a
                \* HashMap exists), "consumed" (into_iter has taken it),
                \* "aborted" (resize has panicked)
    given,      \* the Options value validate is called on
    validated,  \* what validate returned: None before the call
    reference,  \* history: the dictionary the calls so far describe, a
                \* function from the keys held to their values
    puts,       \* history: the number of put calls made, kept by the runs
                \* that count them (SpecPutPop) and 0 in the others
    head,       \* LinkedList.head: Link<T>
    pushed      \* history: every item pushed on the list, oldest first,
                \* each with whether a pop has returned it

vars == <<items, size, options, digest, inserted, pc, given, validated,
          reference, puts, head, pushed>>

\* The list, which no method of the map touches.
linked_list == <<head, pushed>>

\* What the construction leaves alone once the map exists.
construction == <<pc, given, validated>>

Entry(k, v) == [key |-> k, value |-> v]

\* The hash functions a run may have: one that gives every key the same
\* digest (tests::MyKey), and one under which keys 2j and 2j + 1 have the same
\* digest, so that keys with identical digests, keys that share a bucket at
\* one capacity and part at another, and keys that never meet all occur.
HashFunctions ==
    {[k \in Keys |-> 1], [k \in Keys |-> k \div 2]}

\* fn hash: the DefaultHasher digest of the key.
hash(key) == digest[key]

\* fn find_key_index; called only with capacity > 0 (capacity 0 panics).
find_key_index(key, capacity) == hash(key) % capacity

\* Mutant of create_backing_vec: Vec::with_capacity alone, which reserves
\* room for the buckets and holds none.
create_backing_vec_unfilled(capacity) == <<>>

\* HashMap::create_backing_vec: capacity empty buckets.
create_backing_vec(capacity) == [i \in 1..capacity |-> <<>>]

\* HashMap::capacity
capacity_of(its) == Len(its)

\* Iterator::position over a bucket: the 1-based index of the first entry
\* whose key is key, 0 when there is none.
RECURSIVE position_from(_, _, _)
position_from(bucket, key, i) ==
    IF i > Len(bucket) THEN 0
    ELSE IF bucket[i].key = key THEN i
    ELSE position_from(bucket, key, i + 1)

\* Mutant of position: only the head of the chain is compared.
position_head_only(bucket, key) ==
    IF bucket # <<>> /\ bucket[1].key = key THEN 1 ELSE 0

position(bucket, key) == position_from(bucket, key, 1)

\* Mutant of swap_remove: Vec::pop, which takes the last element whatever
\* pos is.
swap_remove_last(bucket, pos) ==
    [vec |-> SubSeq(bucket, 1, Len(bucket) - 1),
     removed |-> bucket[Len(bucket)]]

\* Vec::swap_remove: the element at pos is taken out and returned, and the
\* last element takes its place.
swap_remove(bucket, pos) ==
    LET last == Len(bucket) IN
    [vec |-> IF pos = last THEN SubSeq(bucket, 1, last - 1)
             ELSE SubSeq([bucket EXCEPT ![pos] = bucket[last]], 1, last - 1),
     removed |-> bucket[pos]]

\* into_iter().flatten(): the entries bucket after bucket, each in order.
RECURSIVE flatten(_)
flatten(its) ==
    IF its = <<>> THEN <<>> ELSE Head(its) \o flatten(Tail(its))

\* Mutant of redistribute: the entry replaces the bucket instead of being
\* pushed to it.
RECURSIVE redistribute_overwriting(_, _)
redistribute_overwriting(entries, new_vec) ==
    IF entries = <<>> THEN new_vec
    ELSE LET entry == Head(entries)
             index == hash(entry.key) % Len(new_vec)
         IN redistribute_overwriting(
                Tail(entries), [new_vec EXCEPT ![index + 1] = <<entry>>])

\* Mutant of redistribute: the bucket is computed from the key itself, not
\* from its digest.
RECURSIVE redistribute_by_key(_, _)
redistribute_by_key(entries, new_vec) ==
    IF entries = <<>> THEN new_vec
    ELSE LET entry == Head(entries)
             index == entry.key % Len(new_vec)
         IN redistribute_by_key(Tail(entries),
                                [new_vec EXCEPT ![index + 1] = Append(@, entry)])

\* The loop of HashMap::resize: each entry in turn is pushed to the bucket
\* find_key_index gives for the length of new_vec.
RECURSIVE redistribute(_, _)
redistribute(entries, new_vec) ==
    IF entries = <<>> THEN new_vec
    ELSE LET entry == Head(entries)
             index == find_key_index(entry.key, Len(new_vec))
         IN redistribute(Tail(entries),
                         [new_vec EXCEPT ![index + 1] = Append(@, entry)])

\* Mutant of resize: a capacity of 0 is refused and the map left as it is.
resize_rejects_zero(self, capacity) ==
    IF capacity = 0
    THEN [items |-> self.items, size |-> self.size, options |-> self.options,
          panicked |-> FALSE]
    ELSE [items |-> redistribute(flatten(self.items),
                                 create_backing_vec(capacity)),
          size |-> self.size, options |-> self.options,
          panicked |-> FALSE]

\* HashMap::resize. self is [items, size, options]. With capacity 0 and an
\* entry to place, find_key_index panics (remainder by zero) after mem::take
\* has left self.items empty.
resize(self, capacity) ==
    IF capacity = 0 /\ flatten(self.items) # <<>>
    THEN [items |-> <<>>, size |-> self.size, options |-> self.options,
          panicked |-> TRUE]
    ELSE [items |-> redistribute(flatten(self.items),
                                 create_backing_vec(capacity)),
          size |-> self.size, options |-> self.options,
          panicked |-> FALSE]

\* Mutant of exceeds_threshold: the load factor is left out, so the map
\* counts as full only with one entry per bucket.
exceeds_threshold_full(sz, capacity, load_factor) ==
    sz >= capacity

\* Mutant of exceeds_threshold: > for >=.
exceeds_threshold_strict(sz, capacity, load_factor) ==
    sz * load_factor.den > capacity * load_factor.num

\* Mutant of exceeds_threshold: the size compared is the one before the
\* entry of this put was counted.
exceeds_threshold_stale_size(sz, capacity, load_factor) ==
    (sz - 1) * load_factor.den >= capacity * load_factor.num

\* HashMap::exceeds_threshold
exceeds_threshold(sz, capacity, load_factor) ==
    sz * load_factor.den >= capacity * load_factor.num

\* Mutant of get: the first entry of the key's bucket is taken as the
\* match, without comparing keys.
get_bucket_head(self, key) ==
    LET index == find_key_index(key, capacity_of(self.items))
        containing_list == self.items[index + 1]
    IN IF containing_list = <<>> THEN None ELSE Some(containing_list[1].value)

\* HashMap::get, on a map with capacity > 0.
get(self, key) ==
    LET index == find_key_index(key, capacity_of(self.items))
        containing_list == self.items[index + 1]
        pos == position(containing_list, key)
    IN IF pos = 0 THEN None ELSE Some(containing_list[pos].value)

\* Mutant of put: the threshold check and the resize come before the push,
\* and a new entry is pushed at the index computed for the old capacity.
put_stale_index(self, key, value) ==
    LET index == hash(key) % capacity_of(self.items)
        containing_list == self.items[index + 1]
        pos == position(containing_list, key)
        size1 == IF pos = 0 THEN self.size + 1 ELSE self.size
        grows == self.options.dynamic_resizing
                     /\ exceeds_threshold(size1, capacity_of(self.items),
                                          self.options.load_factor)
        items1 ==
            IF pos = 0
            THEN LET its == IF grows
                            THEN resize(self, capacity_of(self.items) * 2).items
                            ELSE self.items
                 IN [its EXCEPT ![index + 1] = Append(@, Entry(key, value))]
            ELSE LET its == [self.items EXCEPT ![index + 1][pos].value = value]
                 IN IF grows
                    THEN resize([items |-> its, size |-> size1,
                                 options |-> self.options],
                                capacity_of(its) * 2).items
                    ELSE its
    IN [items |-> items1, size |-> size1, options |-> self.options,
        ret |-> IF pos = 0 THEN None ELSE Some(containing_list[pos].value)]

\* Mutant of put: on the overwrite path the value returned is read after the
\* store, so it is the new value.
put_returns_new(self, key, value) ==
    LET index == hash(key) % capacity_of(self.items)
        containing_list == self.items[index + 1]
        pos == position(containing_list, key)
        items1 ==
            IF pos = 0
            THEN [self.items EXCEPT ![index + 1] = Append(@, Entry(key, value))]
            ELSE [self.items EXCEPT ![index + 1][pos].value = value]
        self1 == [items |-> items1,
                  size |-> IF pos = 0 THEN self.size + 1 ELSE self.size,
                  options |-> self.options]
        self2 ==
            IF self.options.dynamic_resizing
                   /\ exceeds_threshold(self1.size, capacity_of(self1.items),
                                        self.options.load_factor)
            THEN resize(self1, capacity_of(self1.items) * 2)
            ELSE self1
    IN [items |-> self2.items, size |-> self2.size, options |-> self2.options,
        ret |-> IF pos = 0 THEN None ELSE Some(value)]

\* Mutant of put: the automatic resize rebuilds the bucket array at the
\* current capacity instead of twice the capacity.
put_no_growth(self, key, value) ==
    LET index == hash(key) % capacity_of(self.items)
        containing_list == self.items[index + 1]
        pos == position(containing_list, key)
        items1 ==
            IF pos = 0
            THEN [self.items EXCEPT ![index + 1] = Append(@, Entry(key, value))]
            ELSE [self.items EXCEPT ![index + 1][pos].value = value]
        self1 == [items |-> items1,
                  size |-> IF pos = 0 THEN self.size + 1 ELSE self.size,
                  options |-> self.options]
        self2 ==
            IF self.options.dynamic_resizing
                   /\ exceeds_threshold(self1.size, capacity_of(self1.items),
                                        self.options.load_factor)
            THEN resize(self1, capacity_of(self1.items))
            ELSE self1
    IN [items |-> self2.items, size |-> self2.size, options |-> self2.options,
        ret |-> IF pos = 0 THEN None ELSE Some(containing_list[pos].value)]

\* Mutant of put: the threshold check is made on the insert path only.
put_checks_on_insert(self, key, value) ==
    LET index == hash(key) % capacity_of(self.items)
        containing_list == self.items[index + 1]
        pos == position(containing_list, key)
        items1 ==
            IF pos = 0
            THEN [self.items EXCEPT ![index + 1] = Append(@, Entry(key, value))]
            ELSE [self.items EXCEPT ![index + 1][pos].value = value]
        self1 == [items |-> items1,
                  size |-> IF pos = 0 THEN self.size + 1 ELSE self.size,
                  options |-> self.options]
        self2 ==
            IF pos = 0 /\ self.options.dynamic_resizing
                   /\ exceeds_threshold(self1.size, capacity_of(self1.items),
                                        self.options.load_factor)
            THEN resize(self1, capacity_of(self1.items) * 2)
            ELSE self1
    IN [items |-> self2.items, size |-> self2.size, options |-> self2.options,
        ret |-> IF pos = 0 THEN None ELSE Some(containing_list[pos].value)]

\* Mutant of put: the threshold check does not ask whether dynamic
\* resizing is enabled.
put_ignores_flag(self, key, value) ==
    LET index == hash(key) % capacity_of(self.items)
        containing_list == self.items[index + 1]
        pos == position(containing_list, key)
        items1 ==
            IF pos = 0
            THEN [self.items EXCEPT ![index + 1] = Append(@, Entry(key, value))]
            ELSE [self.items EXCEPT ![index + 1][pos].value = value]
        self1 == [items |-> items1,
                  size |-> IF pos = 0 THEN self.size + 1 ELSE self.size,
                  options |-> self.options]
        self2 ==
            IF exceeds_threshold(self1.size, capacity_of(self1.items),
                                 self.options.load_factor)
            THEN resize(self1, capacity_of(self1.items) * 2)
            ELSE self1
    IN [items |-> self2.items, size |-> self2.size, options |-> self2.options,
        ret |-> IF pos = 0 THEN None ELSE Some(containing_list[pos].value)]

\* Mutant of put: a loop for the if of the threshold check, so that the
\* capacity is doubled until the size is below the threshold.
RECURSIVE resize_while_over(_)
resize_while_over(self) ==
    IF exceeds_threshold(self.size, capacity_of(self.items),
                         self.options.load_factor)
    THEN resize_while_over(resize(self, capacity_of(self.items) * 2))
    ELSE self

put_resizes_in_loop(self, key, value) ==
    LET index == find_key_index(key, capacity_of(self.items))
        containing_list == self.items[index + 1]
        pos == position(containing_list, key)
        items1 ==
            IF pos = 0
            THEN [self.items EXCEPT ![index + 1] = Append(@, Entry(key, value))]
            ELSE [self.items EXCEPT ![index + 1][pos].value = value]
        self1 == [items |-> items1,
                  size |-> IF pos = 0 THEN self.size + 1 ELSE self.size,
                  options |-> self.options]
        self2 ==
            IF self.options.dynamic_resizing
            THEN resize_while_over(self1)
            ELSE self1
    IN [items |-> self2.items, size |-> self2.size, options |-> self2.options,
        ret |-> IF pos = 0 THEN None ELSE Some(containing_list[pos].value)]

\* HashMap::put, on a map with capacity > 0: the map after the call, and the
\* value returned.
put(self, key, value) ==
    LET index == find_key_index(key, capacity_of(self.items))
        containing_list == self.items[index + 1]
        pos == position(containing_list, key)
        existing_value ==
            IF pos = 0 THEN None ELSE Some(containing_list[pos].value)
        items1 ==
            IF pos = 0
            THEN [self.items EXCEPT ![index + 1] = Append(@, Entry(key, value))]
            ELSE [self.items EXCEPT ![index + 1][pos].value = value]
        self1 == [items |-> items1,
                  size |-> IF pos = 0 THEN self.size + 1 ELSE self.size,
                  options |-> self.options]
        self2 ==
            IF self.options.dynamic_resizing
                   /\ exceeds_threshold(self1.size, capacity_of(self1.items),
                                        self.options.load_factor)
            THEN resize(self1, capacity_of(self1.items) * 2)
            ELSE self1
    IN [items |-> self2.items, size |-> self2.size, options |-> self2.options,
        ret |-> existing_value]

\* Mutant of pop: size is decremented (saturating) whether or not the key
\* was found.
pop_decrements_always(self, key) ==
    LET index == hash(key) % capacity_of(self.items)
        containing_list == self.items[index + 1]
        pos == position(containing_list, key)
        taken == swap_remove(containing_list, pos)
        size1 == IF self.size > 0 THEN self.size - 1 ELSE 0
    IN IF pos = 0
       THEN [items |-> self.items, size |-> size1,
             options |-> self.options, ret |-> None]
       ELSE [items |-> [self.items EXCEPT ![index + 1] = taken.vec],
             size |-> size1,
             options |-> self.options,
             ret |-> Some(taken.removed.value)]

\* Mutant of pop: after a miss in a bucket that holds entries, the last
\* entry of the bucket is dropped.
pop_miss_truncates(self, key) ==
    LET index == hash(key) % capacity_of(self.items)
        containing_list == self.items[index + 1]
        pos == position(containing_list, key)
        taken == swap_remove(containing_list, pos)
    IN IF pos = 0
       THEN [items |-> [self.items EXCEPT ![index + 1] =
                            SubSeq(@, 1, Len(@) - 1)],
             size |-> self.size - Len(containing_list)
                          + Len(SubSeq(containing_list, 1,
                                       Len(containing_list) - 1)),
             options |-> self.options, ret |-> None]
       ELSE [items |-> [self.items EXCEPT ![index + 1] = taken.vec],
             size |-> self.size - 1,
             options |-> self.options,
             ret |-> Some(taken.removed.value)]

\* Mutant of pop: the value is returned but the entry stays in its bucket.
pop_keeps_entry(self, key) ==
    LET index == hash(key) % capacity_of(self.items)
        containing_list == self.items[index + 1]
        pos == position(containing_list, key)
    IN IF pos = 0
       THEN [items |-> self.items, size |-> self.size,
             options |-> self.options, ret |-> None]
       ELSE [items |-> self.items,
             size |-> self.size - 1,
             options |-> self.options,
             ret |-> Some(containing_list[pos].value)]

\* HashMap::pop, on a map with capacity > 0: the map after the call, and the
\* value returned.
pop(self, key) ==
    LET index == find_key_index(key, capacity_of(self.items))
        containing_list == self.items[index + 1]
        pos == position(containing_list, key)
        taken == swap_remove(containing_list, pos)
    IN IF pos = 0
       THEN [items |-> self.items, size |-> self.size,
             options |-> self.options, ret |-> None]
       ELSE [items |-> [self.items EXCEPT ![index + 1] = taken.vec],
             size |-> self.size - 1,
             options |-> self.options,
             ret |-> Some(taken.removed.value)]

\* HashMap::with_options
with_options(opts) ==
    [items |-> create_backing_vec(opts.initial_capacity),
     size |-> 0,
     options |-> opts]

\* ------------------------------------- hashmap/iter.rs, iter_mut.rs, into_iter.rs
\* items.iter().flatten(), items.iter_mut().flatten() and
\* items.into_iter().flatten(): the outer iterator has handed out the first
\* b buckets, and the front iterator, over bucket b, its first j entries.
Flatten(buckets) == [buckets |-> buckets, b |-> 0, j |-> 0]

\* Mutant of flatten_next: an empty bucket is taken for the end.
RECURSIVE flatten_next_until_empty(_)
flatten_next_until_empty(it) ==
    IF it.b >= 1 /\ it.j < Len(it.buckets[it.b])
    THEN [ret |-> Some([bucket |-> it.b, slot |-> it.j + 1]),
          it |-> [it EXCEPT !.j = it.j + 1]]
    ELSE IF it.b < Len(it.buckets) /\ it.buckets[it.b + 1] # <<>>
    THEN flatten_next_until_empty([it EXCEPT !.b = it.b + 1, !.j = 0])
    ELSE [ret |-> None, it |-> it]

\* Flatten::next: the place (bucket, slot) of the next entry and the
\* iterator after the call. The front iterator is drained first, then the
\* outer iterator is asked for the next bucket, until it has none.
RECURSIVE flatten_next(_)
flatten_next(it) ==
    IF it.b >= 1 /\ it.j < Len(it.buckets[it.b])
    THEN [ret |-> Some([bucket |-> it.b, slot |-> it.j + 1]),
          it |-> [it EXCEPT !.j = it.j + 1]]
    ELSE IF it.b < Len(it.buckets)
    THEN flatten_next([it EXCEPT !.b = it.b + 1, !.j = 0])
    ELSE [ret |-> None, it |-> it]

\* HashMap::iter, iter_mut and into_iter: the boxed iterator of each view.
iter(self) == Flatten(self.items)
iter_mut(self) == Flatten(self.items)
into_iter(self) == Flatten(self.items)

\* Iter::next: Entry { key: &entry.key, value: &entry.value }; a shared
\* reference is what it refers to.
iter_next(it) ==
    LET r == flatten_next(it) IN
    [ret |-> IF r.ret = None THEN None
             ELSE LET at == unwrap(r.ret)
                      entry == it.buckets[at.bucket][at.slot]
                  IN Some(Entry(entry.key, entry.value)),
     it |-> r.it]

\* IterMut::next: Entry { key: &entry.key, value: &mut entry.value }; the
\* mutable reference is the place of the value.
iter_mut_next(it) ==
    LET r == flatten_next(it) IN
    [ret |-> IF r.ret = None THEN None
             ELSE LET at == unwrap(r.ret)
                      entry == it.buckets[at.bucket][at.slot]
                  IN Some(Entry(entry.key, at)),
     it |-> r.it]

\* IntoIter::next: the entry itself, moved out.
into_iter_next(it) ==
    LET r == flatten_next(it) IN
    [ret |-> IF r.ret = None THEN None
             ELSE LET at == unwrap(r.ret)
                  IN Some(it.buckets[at.bucket][at.slot]),
     it |-> r.it]

\* A view run to exhaustion (collect): the items yielded, and the iterator
\* that is left.
RECURSIVE collect_iter(_)
collect_iter(it) ==
    LET r == iter_next(it) IN
    IF r.ret = None THEN [yielded |-> <<>>, it |-> r.it]
    ELSE LET rest == collect_iter(r.it) IN
         [yielded |-> <<unwrap(r.ret)>> \o rest.yielded, it |-> rest.it]

RECURSIVE collect_iter_mut(_)
collect_iter_mut(it) ==
    LET r == iter_mut_next(it) IN
    IF r.ret = None THEN [yielded |-> <<>>, it |-> r.it]
    ELSE LET rest == collect_iter_mut(r.it) IN
         [yielded |-> <<unwrap(r.ret)>> \o rest.yielded, it |-> rest.it]

RECURSIVE collect_into_iter(_)
collect_into_iter(it) ==
    LET r == into_iter_next(it) IN
    IF r.ret = None THEN [yielded |-> <<>>, it |-> r.it]
    ELSE LET rest == collect_into_iter(r.it) IN
         [yielded |-> <<unwrap(r.ret)>> \o rest.yielded, it |-> rest.it]

\* some_entry.key = &other: the key field of the yielded Entry, a shared
\* reference, is pointed at another key. The map is no operand.
rebind_key(item, other) == [item EXCEPT !.key = other]

\* Mutant of write_value: the yielded entry is stored whole, with the key
\* its key field now refers to.
write_entry(self, item, value) ==
    [items |-> [self.items EXCEPT ![item.value.bucket][item.value.slot] =
                    Entry(item.key, value)],
     size |-> self.size,
     options |-> self.options]

\* *some_entry.value = value: a store through the mutable reference of an
\* entry that iter_mut yielded.
write_value(self, item, value) ==
    [items |-> [self.items EXCEPT ![item.value.bucket][item.value.slot].value =
                    value],
     size |-> self.size,
     options |-> self.options]

\* ------------------------------------------------------------ linked_list.rs
\* Node<T> { item, next } with next a Link<T> = Option<Box<Node<T>>>; a list
\* is [head |-> Link]. LinkedList::new() has head None.
Node(item, next) == [item |-> item, next |-> next]

\* Mutant of list_push: the new node is built with next: None, and the old
\* head is not linked behind it.
list_push_unlinked(self, item) ==
    [head |-> Some(Node(item, None))]

\* LinkedList::push: the new node takes the old head as its next.
list_push(self, item) ==
    LET new_node == Node(item, self.head) IN
    [head |-> Some(new_node)]

\* LinkedList::pop_link: the head node is taken out and its next becomes
\* the head; ret is the node taken, with its next taken from it.
list_pop_link(self) ==
    IF self.head = None
    THEN [head |-> None, ret |-> None]
    ELSE LET boxed_node == unwrap(self.head) IN
         [head |-> boxed_node.next,
          ret |-> Some(Node(boxed_node.item, None))]

\* LinkedList::pop
list_pop(self) ==
    LET r == list_pop_link(self) IN
    [head |-> r.head,
     ret |-> IF r.ret = None THEN None ELSE Some(unwrap(r.ret).item)]

\* LinkedList::peek
list_peek(self) ==
    IF self.head = None THEN None ELSE Some(unwrap(self.head).item)

\* linked_list/iter.rs. Iter { next: Option<&Node<T>> }; LinkedList::iter
\* starts it at the head node.
list_iter(self) == [next |-> self.head]

\* Iter::next: the item of the node at hand, and the view moved to the
\* node after it.
list_iter_next(it) ==
    IF it.next = None
    THEN [it |-> it, ret |-> None]
    ELSE LET node == unwrap(it.next) IN
         [it |-> [next |-> node.next], ret |-> Some(node.item)]

\* tests::test_iterator: next is called until it returns None.
RECURSIVE list_collect(_)
list_collect(it) ==
    LET r == list_iter_next(it) IN
    IF r.ret = None
    THEN [yielded |-> <<>>, it |-> r.it]
    ELSE LET rest == list_collect(r.it) IN
         [yielded |-> <<unwrap(r.ret)>> \o rest.yielded, it |-> rest.it]

\* ------------------------------------------------------------ the reference
\* The abstract finite dictionary that is run side by side with the map:
\* the same calls, on a function from keys to values.
EmptyReference == [k \in {} |-> None]

dict_get(d, key) == IF key \in DOMAIN d THEN Some(d[key]) ELSE None

dict_put(d, key, value) ==
    [dict |-> [k \in DOMAIN d \cup {key} |-> IF k = key THEN value ELSE d[k]],
     ret |-> dict_get(d, key)]

dict_pop(d, key) ==
    [dict |-> [k \in DOMAIN d \ {key} |-> d[k]],
     ret |-> dict_get(d, key)]

\* --------------------------------------------------------------- the machine
\* A map built by with_options from an Options value that validate accepts,
\* keyed by a type with one of the hash functions.
Init ==
    \E o \in OptionsInputs :
        /\ validate(o).ok
        /\ LET m == with_options(unwrap(validate(o).value)) IN
           /\ items = m.items
           /\ size = m.size
           /\ options = m.options
        /\ digest \in HashFunctions
        /\ inserted = {}
        /\ reference = EmptyReference
        /\ puts = 0
        /\ head = None
        /\ pushed = <<>>
        /\ pc = "map"
        /\ given = o
        /\ validated = Some(validate(o))

\* The map as the methods see it.
Self == [items |-> items, size |-> size, options |-> options]

\* Whether a call of get, put or pop panics: find_key_index takes the
\* remainder by capacity 0, before the call has changed anything.
index_panics(self) == capacity_of(self.items) = 0

\* get is a read: it returns get(Self, key) and changes nothing.
Get(key) ==
    /\ UNCHANGED vars

\* put. The count of puts is left to the run: see Next and NextPutPop.
Put(key, value) ==
    /\ UNCHANGED <<options, digest, construction, linked_list>>
    /\ IF index_panics(Self)
       THEN UNCHANGED <<items, size, inserted, reference>>
       ELSE LET r == put(Self, key, value) IN
            /\ items' = r.items
            /\ size' = r.size
            /\ inserted' = inserted \cup {key}
            /\ reference' = dict_put(reference, key, value).dict

Pop(key) ==
    /\ UNCHANGED <<options, digest, inserted, construction, puts, linked_list>>
    /\ IF index_panics(Self)
       THEN UNCHANGED <<items, size, reference>>
       ELSE LET r == pop(Self, key) IN
            /\ items' = r.items
            /\ size' = r.size
            /\ reference' = dict_pop(reference, key).dict

Resize(n) ==
    /\ UNCHANGED <<options, digest, inserted, construction, reference, puts,
                   linked_list>>
    /\ LET r == resize(Self, n) IN
       /\ items' = r.items
       /\ size' = r.size

Next ==
    \/ \E k \in Keys : Get(k)
    \/ \E k \in Keys, v \in Values : Put(k, v) /\ UNCHANGED puts
    \/ \E k \in Keys : Pop(k)
    \/ \E n \in 1..MaxResize : Resize(n)

\* get, put, pop and resize(n) with n >= 1 on a freshly constructed map.
Spec == Init /\ [][Next]_vars

\* ------------------------------------------------------------ any resize
\* resize(0). After one that panicked the map is as the unwinding left it,
\* with a size that counts entries it no longer holds; the panic ends the
\* run, and the reference is dropped with the entries.
ResizeZero ==
    /\ pc = "map"
    /\ LET r == resize(Self, 0) IN
       /\ items' = r.items
       /\ size' = r.size
       /\ reference' = IF r.panicked THEN EmptyReference ELSE reference
       /\ pc' = IF r.panicked THEN "aborted" ELSE pc
    /\ UNCHANGED <<options, digest, inserted, given, validated, puts,
                   linked_list>>

NextAny ==
    \/ pc = "map" /\ Next
    \/ ResizeZero

\* get, put, pop and resize(n) with n >= 0.
SpecAny == Init /\ [][NextAny]_vars

\* ------------------------------------------------------------ the views
\* iter() run to exhaustion: a read.
IterRun ==
    /\ pc = "map"
    /\ UNCHANGED vars

\* tests::test_iter_mutation: iter_mut() is advanced to its n-th entry, a
\* value is stored through the value field, and the view is dropped.
IterMutWrite(n, value) ==
    /\ pc = "map"
    /\ n <= size
    /\ LET yielded == collect_iter_mut(iter_mut(Self)).yielded IN
       /\ n <= Len(yielded)
       /\ items' = write_value(Self, yielded[n], value).items
       /\ reference' = dict_put(reference, yielded[n].key, value).dict
    /\ UNCHANGED <<size, options, digest, inserted, construction, puts,
                   linked_list>>

\* tests::cannot_mutate_key: iter_mut() is advanced to its n-th entry, the
\* key field of the yielded Entry is pointed at another key, and the view
\* is dropped together with that Entry.
IterMutRebind(n, other) ==
    /\ pc = "map"
    /\ n <= size
    /\ UNCHANGED vars

\* into_iter(): the map is moved into the view, which takes the bucket
\* array with it; no map is left to call anything on.
IntoIterRun ==
    /\ pc = "map"
    /\ pc' = "consumed"
    /\ items' = <<>>
    /\ size' = 0
    /\ reference' = EmptyReference
    /\ UNCHANGED <<options, digest, inserted, given, validated, puts,
                   linked_list>>

NextViews ==
    \/ pc = "map" /\ Next
    \/ IterRun
    \/ \E n \in 1..NumKeys, v \in Values : IterMutWrite(n, v)
    \/ \E n \in 1..NumKeys, other \in Keys : IterMutRebind(n, other)
    \/ IntoIterRun

\* get, put, pop, resize(n) with n >= 1 and the three views.
SpecViews == Init /\ [][NextViews]_vars

\* ------------------------------------------------------------ construction
\* The Options values a client may build: each knob unset or set, capacities
\* 0..MaxInitialCapacity and DEFAULT_CAPACITY, load factors from -0.5 to
\* MaxQuarters / 4 in steps of 0.25.
MaxInitialCapacity == 3
MaxQuarters == 5

CapacityInputs ==
    {None, Some(DEFAULT_CAPACITY)} \cup {Some(n) : n \in 0..MaxInitialCapacity}
LoadFactorInputs ==
    {None} \cup {Some(Ratio(n, 4)) : n \in -2..MaxQuarters}
ValidateInputs ==
    {Opts(c, lf, dr) : c \in CapacityInputs, lf \in LoadFactorInputs,
                       dr \in {None, Some(TRUE), Some(FALSE)}}

\* Options::default(): every knob unset (#[derive(Default)]).
OptionsDefault == Opts(None, None, None)

\* An Options value has been built and no map exists yet: items, size and
\* options are not read before with_options assigns them.
InitOptions ==
    /\ pc = "options"
    /\ given \in ValidateInputs
    /\ validated = None
    /\ items = <<>>
    /\ size = 0
    /\ options = None
    /\ digest \in HashFunctions
    /\ inserted = {}
    /\ reference = EmptyReference
    /\ puts = 0
    /\ head = None
    /\ pushed = <<>>

\* Options::validate on the value built.
Validate ==
    /\ pc = "options"
    /\ pc' = "validated"
    /\ validated' = Some(validate(given))
    /\ UNCHANGED <<items, size, options, digest, inserted, given, reference,
                   puts, linked_list>>

\* HashMap::with_options: callable only with a ValidatedOptions, which only
\* an Ok of validate holds (the fields of ValidatedOptions are private).
WithOptions ==
    /\ pc = "validated"
    /\ unwrap(validated).ok
    /\ pc' = "map"
    /\ LET m == with_options(unwrap(unwrap(validated).value)) IN
       /\ items' = m.items
       /\ size' = m.size
       /\ options' = m.options
    /\ UNCHANGED <<digest, inserted, given, validated, reference, puts,
                   linked_list>>

\* HashMap::new: with_options(Options::default().validate().unwrap()).
New ==
    /\ pc = "options"
    /\ given = OptionsDefault
    /\ pc' = "map"
    /\ validated' = Some(validate(OptionsDefault))
    /\ LET m == with_options(unwrap(validate(OptionsDefault).value)) IN
       /\ items' = m.items
       /\ size' = m.size
       /\ options' = m.options
    /\ UNCHANGED <<digest, inserted, given, reference, puts, linked_list>>

NextConstruct ==
    \/ Validate
    \/ WithOptions
    \/ New

\* From an Options value to a map, by validate and with_options or by new.
SpecConstruct == InitOptions /\ [][NextConstruct]_vars

\* ------------------------------------------------------------ fixed capacity
\* tests::test_dynamic_resizing_off: a map built with dynamic_resizing:
\* Some(false), with any capacity and load factor validate accepts, is used
\* by get, put and pop alone.
InitFixed ==
    \E o \in ValidateInputs :
        /\ o.dynamic_resizing = Some(FALSE)
        /\ validate(o).ok
        /\ LET m == with_options(unwrap(validate(o).value)) IN
           /\ items = m.items
           /\ size = m.size
           /\ options = m.options
        /\ digest \in HashFunctions
        /\ inserted = {}
        /\ reference = EmptyReference
        /\ puts = 0
        /\ head = None
        /\ pushed = <<>>
        /\ pc = "map"
        /\ given = o
        /\ validated = Some(validate(o))

NextFixed ==
    \/ \E k \in Keys : Get(k)
    \/ \E k \in Keys, v \in Values : Put(k, v) /\ UNCHANGED puts
    \/ \E k \in Keys : Pop(k)

SpecFixed == InitFixed /\ [][NextFixed]_vars

\* ------------------------------------------------------------ growth
\* tests::test_dynamic_resizing: a map with initial_capacity 16, the default
\* load factor and dynamic resizing on is filled by put alone, one distinct
\* key after the other (the loop of lines 270-272).
MaxInserts == 12

GrowthKeys == 1..MaxInserts

\* Digests for the keys of the growth run: all equal, equal in pairs, and
\* all different with a stride that spreads them over 16 and 32 buckets.
GrowthHashFunctions ==
    {[k \in GrowthKeys |-> 1],
     [k \in GrowthKeys |-> k \div 2],
     [k \in GrowthKeys |-> 7 * k]}

GrowthOptions == Opts(Some(16), None, Some(TRUE))

InitGrowth ==
    /\ pc = "map"
    /\ given = GrowthOptions
    /\ validated = Some(validate(GrowthOptions))
    /\ LET m == with_options(unwrap(validate(GrowthOptions).value)) IN
       /\ items = m.items
       /\ size = m.size
       /\ options = m.options
    /\ digest \in GrowthHashFunctions
    /\ inserted = {}
    /\ reference = EmptyReference
    /\ puts = 0
    /\ head = None
    /\ pushed = <<>>

\* The next distinct key of the loop is put.
PutNext ==
    /\ Cardinality(inserted) < MaxInserts
    /\ \E v \in Values : Put(Cardinality(inserted) + 1, v) /\ UNCHANGED puts

NextGrowth == PutNext

SpecGrowth == InitGrowth /\ [][NextGrowth]_vars

\* ------------------------------------------------------------ put and pop
\* A map of any configuration validate accepts, with every knob given, is
\* used by put and pop alone, without a call of resize, and the puts are
\* counted: at most MaxPuts of them in a run.
MaxPuts == 4

InitPutPop ==
    \E o \in ValidateInputs :
        /\ None \notin {o.initial_capacity, o.load_factor, o.dynamic_resizing}
        /\ validate(o).ok
        /\ LET m == with_options(unwrap(validate(o).value)) IN
           /\ items = m.items
           /\ size = m.size
           /\ options = m.options
        /\ digest \in HashFunctions
        /\ inserted = {}
        /\ reference = EmptyReference
        /\ puts = 0
        /\ head = None
        /\ pushed = <<>>
        /\ pc = "map"
        /\ given = o
        /\ validated = Some(validate(o))

PutCounted(key, value) ==
    /\ puts < MaxPuts
    /\ puts' = puts + 1
    /\ Put(key, value)

NextPutPop ==
    \/ \E k \in Keys, v \in Values : PutCounted(k, v)
    \/ \E k \in Keys : Pop(k)

SpecPutPop == InitPutPop /\ [][NextPutPop]_vars

\* ------------------------------------------------------------ default map
\* tests::test_get_put, test_pop, test_size: a map built by new() is used
\* by put and pop alone, on the keys of the growth run. Key k is put with
\* one value, as the entries (i.to_string(), i) of the tests. The calls of
\* a run: put of the smallest key the map lacks, put of a key it holds, pop
\* of the largest or the smallest key it holds, pop of a key it lacks. The
\* digests are equal in pairs or all different.
DefaultRunHashFunctions ==
    {[k \in GrowthKeys |-> k \div 2],
     [k \in GrowthKeys |-> 7 * k]}

value_of(key) == (key % 2) + 1

InitDefault ==
    /\ pc = "map"
    /\ given = OptionsDefault
    /\ validated = Some(validate(OptionsDefault))
    /\ LET m == with_options(unwrap(validate(OptionsDefault).value)) IN
       /\ items = m.items
       /\ size = m.size
       /\ options = m.options
    /\ digest \in DefaultRunHashFunctions
    /\ inserted = {}
    /\ reference = EmptyReference
    /\ puts = 0
    /\ head = None
    /\ pushed = <<>>

Held == DOMAIN reference
Lacked == GrowthKeys \ Held
Smallest(S) == CHOOSE k \in S : \A other \in S : k <= other
Largest(S) == CHOOSE k \in S : \A other \in S : k >= other

PutLacked ==
    /\ Lacked # {}
    /\ Put(Smallest(Lacked), value_of(Smallest(Lacked)))
    /\ UNCHANGED puts

PutHeld ==
    /\ Held # {}
    /\ Put(Largest(Held), value_of(Largest(Held)))
    /\ UNCHANGED puts

PopLargest == Held # {} /\ Pop(Largest(Held))
PopSmallest == Held # {} /\ Pop(Smallest(Held))
PopLacked == Lacked # {} /\ Pop(Smallest(Lacked))

NextDefault ==
    \/ PutLacked
    \/ PutHeld
    \/ PopLargest
    \/ PopSmallest
    \/ PopLacked

SpecDefault == InitDefault /\ [][NextDefault]_vars

\* ------------------------------------------------------------ the list
\* A LinkedList<T> is built by new() and used by push, pop, peek and iter;
\* no map is built beside it. A run makes at most MaxPushed pushes, of the
\* items 1..MaxItem.
MaxItem == 3
MaxPushed == 4

Items == 1..MaxItem

InitList ==
    /\ head = None
    /\ pushed = <<>>
    /\ pc = "options"
    /\ given = OptionsDefault
    /\ validated = None
    /\ items = <<>>
    /\ size = 0
    /\ options = None
    /\ digest = [k \in Keys |-> 1]
    /\ inserted = {}
    /\ reference = EmptyReference
    /\ puts = 0

\* The list as its methods see it.
List == [head |-> head]

\* What the calls on the list leave alone.
hash_map == <<items, size, options, digest, inserted, pc, given, validated,
              reference, puts>>

\* The positions of pushed whose item no pop has returned yet.
Pending == {i \in 1..Len(pushed) : ~pushed[i].popped}

ListPush(item) ==
    /\ Len(pushed) < MaxPushed
    /\ head' = list_push(List, item).head
    /\ pushed' = Append(pushed, [item |-> item, popped |-> FALSE])
    /\ UNCHANGED hash_map

\* pop: in the history the most recent pending push, if any, is marked.
ListPop ==
    /\ head' = list_pop(List).head
    /\ pushed' = IF Pending = {}
                 THEN pushed
                 ELSE LET last == CHOOSE i \in Pending :
                                      \A j \in Pending : j <= i
                      IN [pushed EXCEPT ![last].popped = TRUE]
    /\ UNCHANGED hash_map

\* peek and a full run of iter() are reads.
ListPeek == UNCHANGED vars
ListIter == UNCHANGED vars

NextList ==
    \/ \E item \in Items : ListPush(item)
    \/ ListPop
    \/ ListPeek
    \/ ListIter

SpecList == InitList /\ [][NextList]_vars

\* ------------------------------------------------------------ properties
Capacity == capacity_of(items)

\* The stored entries, and how often key k is among them.
Entries == flatten(items)
Occurrences(k) == Cardinality({i \in 1..Len(Entries) : Entries[i].key = k})

\* Whether the map can be queried, and what get then returns.
Usable == ~index_panics(Self)
Present(k) == get(Self, k) # None

\* Keys whose digests are identical.
SameDigest(k1, k2) == k1 # k2 /\ hash(k1) = hash(k2)

\* C1: size equals the number of entries held across all buckets; it is
\* never negative, and pop of a key that is absent (never inserted, or
\* already removed) returns nothing and leaves size as it is.
C1_SizeIsEntryCount ==
    /\ size = Len(Entries)
    /\ size >= 0
    /\ Usable =>
         \A k \in Keys :
             ~Present(k) =>
                 /\ pop(Self, k).ret = None
                 /\ pop(Self, k).size = size

\* C1 witness: a key that was inserted has been removed again while another
\* entry is still stored, so a repeated pop of it is a pop of an absent key.
C1_Witness ==
    /\ Usable
    /\ size > 0
    /\ \E k \in inserted : ~Present(k)

\* C2: each key occurs at most once in the whole bucket array, keys with
\* identical digests included.
C2_KeyAtMostOnce ==
    \A k \in Keys : Occurrences(k) <= 1

\* C2 witness: two keys with identical digests are both stored and the
\* bucket array has been rebuilt at another capacity.
C2_Witness ==
    /\ Usable
    /\ Capacity # options.initial_capacity
    /\ \E k1, k2 \in Keys :
           SameDigest(k1, k2) /\ Present(k1) /\ Present(k2)

\* C3: the capacity, the length of the bucket array, is at least 1 for every
\* map built from an Options value that validate accepts.
C3_CapacityAtLeastOne ==
    Capacity >= 1

\* The load factor as the threshold check uses it: sz >= cap * load_factor
\* and sz < cap * load_factor, in exact arithmetic.
AtOrOver(sz, cap) ==
    sz * options.load_factor.den >= cap * options.load_factor.num
Under(sz, cap) ==
    sz * options.load_factor.den < cap * options.load_factor.num

\* capacity * load_factor >= 1: the threshold is at least one entry.
ThresholdAtLeastOne ==
    Capacity * options.load_factor.num >= options.load_factor.den

\* Whether put(k, v) on the current map rebuilds the bucket array.
PutResizes(k, v) == capacity_of(put(Self, k, v).items) # Capacity

\* C4: get(k) right after put(k, v) returns v, also when the put resized
\* the map, and get(k) returns nothing for a key no put was called with.
C4_GetAfterPut ==
    Usable =>
        /\ \A k \in Keys, v \in Values : get(put(Self, k, v), k) = Some(v)
        /\ \A k \in Keys \ inserted : get(Self, k) = None

\* C4 witness: some key has been inserted, another never was, and a put of
\* the latter is about to trigger the automatic resize.
C4_Witness ==
    /\ Usable
    /\ inserted # {}
    /\ \E k \in Keys \ inserted, v \in Values :
           /\ put(Self, k, v).ret = None
           /\ PutResizes(k, v)
           /\ capacity_of(put(Self, k, v).items) = 2 * Capacity

\* C5: put(k, v2) on a key that is present with value v1 returns v1, leaves
\* get(k) = v2 and size unchanged, and k still has exactly one entry.
C5_PutOverwrite ==
    Usable =>
        \A k \in Keys, v2 \in Values :
            Present(k) =>
                LET r == put(Self, k, v2) IN
                /\ r.ret = get(Self, k)
                /\ get(r, k) = Some(v2)
                /\ r.size = size
                /\ Cardinality({i \in 1..Len(flatten(r.items)) :
                                    flatten(r.items)[i].key = k}) = 1

\* C5 witness: a key is present with a value other than the one a put is
\* about to store, in a bucket it shares with another key.
C5_Witness ==
    /\ Usable
    /\ \E k \in Keys, v2 \in Values :
           /\ Present(k)
           /\ get(Self, k) # Some(v2)
           /\ Len(items[find_key_index(k, Capacity) + 1]) >= 2

\* C6: pop(k) on a key that is present with value v returns v and lowers
\* size by exactly one; afterwards get(k) returns nothing and a second
\* pop(k) returns nothing.
C6_PopPresent ==
    Usable =>
        \A k \in Keys :
            Present(k) =>
                LET r == pop(Self, k) IN
                /\ r.ret = get(Self, k)
                /\ r.size = size - 1
                /\ get(r, k) = None
                /\ pop(r, k).ret = None
                /\ pop(r, k).size = r.size

\* C6 witness: a key was inserted and is no longer present, so a pop has
\* removed it, and a key that can be popped is still stored.
C6_Witness ==
    /\ Usable
    /\ \E k \in inserted : ~Present(k)
    /\ \E k \in Keys : Present(k)

\* C7: resize(n), n >= 1, larger than, equal to or smaller than the current
\* capacity, completes, sets the capacity to n and leaves size and what get
\* returns for every key unchanged.
C7_ResizePreserves ==
    \A n \in 1..MaxResize :
        LET r == resize(Self, n) IN
        /\ ~r.panicked
        /\ capacity_of(r.items) = n
        /\ r.size = size
        /\ \A k \in Keys :
               get(r, k) = IF Usable THEN get(Self, k) ELSE None

\* C7 witness: a two-bucket map with entries in both buckets, whose capacity
\* is no longer the initial one: resize(1) merges the two chains, resize(2)
\* rebuilds them in place, and a resize has brought the map here.
C7_Witness ==
    /\ Capacity = 2
    /\ Capacity # options.initial_capacity
    /\ items[1] # <<>>
    /\ items[2] # <<>>

\* C8: keys with identical digests are stored and retrieved independently:
\* put (insert or overwrite) and pop of one of them never change what get
\* returns for the other, and the key put is itself retrievable.
C8_CollidingKeysIndependent ==
    Usable =>
        \A k1, k2 \in Keys :
            SameDigest(k1, k2) =>
                /\ \A v \in Values :
                       /\ get(put(Self, k1, v), k2) = get(Self, k2)
                       /\ get(put(Self, k1, v), k1) = Some(v)
                /\ get(pop(Self, k1), k2) = get(Self, k2)

\* C8 witness: two keys with identical digests are in one bucket, and the
\* one in front is not last, so that popping it makes swap_remove move the
\* bucket's last entry into the vacated slot.
C8_Witness ==
    /\ Usable
    /\ \E k1, k2 \in Keys :
           /\ SameDigest(k1, k2)
           /\ Present(k1)
           /\ Present(k2)
           /\ LET bucket == items[find_key_index(k1, Capacity) + 1] IN
              /\ Len(bucket) = 3
              /\ bucket[1].key = k1

\* C9: with dynamic_resizing enabled, a put changes the capacity exactly
\* when, after its insert or overwrite, size >= capacity * load_factor, and
\* the new capacity is then twice the old one. So capacity 4 with load
\* factor 0.75 stays 4 on the 2nd insert and becomes 8 on the 3rd, and with
\* load factor 0.5 the 2nd insert already doubles it.
C9_DoublesExactlyAtThreshold ==
    (Usable /\ options.dynamic_resizing) =>
        \A k \in Keys, v \in Values :
            LET r == put(Self, k, v)
                grew == capacity_of(r.items) # Capacity
            IN /\ grew <=> AtOrOver(r.size, Capacity)
               /\ grew => capacity_of(r.items) = 2 * Capacity
               /\ (Capacity = 4 /\ ~Present(k)
                       /\ options.load_factor = Ratio(3, 4)) =>
                      capacity_of(r.items) = IF size >= 2 THEN 8 ELSE 4
               /\ (Capacity = 4 /\ ~Present(k)
                       /\ options.load_factor = Ratio(1, 2)) =>
                      capacity_of(r.items) = IF size >= 1 THEN 8 ELSE 4

\* C9 witness: with capacity 4 and load factor 0.75 two inserts have left
\* the capacity at 4, and the map is about to take its 3rd entry.
C9_Witness ==
    /\ options.dynamic_resizing
    /\ options.load_factor = Ratio(3, 4)
    /\ options.initial_capacity = 4
    /\ Capacity = 4
    /\ size = 2
    /\ Cardinality(inserted) = 2
    /\ \E k \in Keys \ inserted : PutResizes(k, 1)

Knob(o, d) == IF o = None THEN d ELSE o[1]

\* C13: validate returns an error list, non-empty and holding the
\* load-factor message, exactly when load_factor is specified and <= 0, and
\* then returns no configuration, so that no map is ever constructed;
\* otherwise it returns a configuration in which each specified knob keeps
\* its value and each unset knob has its default (16, 0.75, true).
C13_ValidateRejectsExactlyBadLoadFactor ==
    (pc # "options") =>
        LET r == validated[1]
            lf == given.load_factor
            bad == lf # None /\ lf[1].num <= 0
        IN /\ ~r.ok <=> bad
           /\ bad =>
                 /\ r.errors # <<>>
                 /\ \E i \in 1..Len(r.errors) :
                        r.errors[i] = "Load factor cannot be zero or less"
                 /\ r.value = None
                 /\ pc # "map"
           /\ ~bad =>
                 /\ r.errors = <<>>
                 /\ r.value # None
                 /\ r.value[1].initial_capacity = Knob(given.initial_capacity, 16)
                 /\ r.value[1].load_factor = Knob(given.load_factor, Ratio(3, 4))
                 /\ r.value[1].dynamic_resizing
                        = Knob(given.dynamic_resizing, TRUE)

\* C13 witness: validate has rejected a load factor of exactly 0 that came
\* with a capacity, so that a configuration could have been filled in.
C13_Witness ==
    /\ pc = "validated"
    /\ given.load_factor = Some(Ratio(0, 4))
    /\ given.initial_capacity # None
    /\ ~validated[1].ok

\* C14: a newly constructed map has size 0 and exactly initial_capacity
\* buckets, all empty, and get returns nothing for every key; the map new()
\* builds has capacity 16, load factor 0.75 and dynamic resizing enabled.
C14_NewMapIsEmpty ==
    (pc = "map") =>
        /\ size = 0
        /\ Len(items) = Knob(given.initial_capacity, 16)
        /\ Len(items) = options.initial_capacity
        /\ \A i \in 1..Len(items) : items[i] = <<>>
        /\ Len(items) >= 1 => \A k \in Keys : get(Self, k) = None
        /\ given = OptionsDefault =>
              /\ Len(items) = 16
              /\ options.load_factor = Ratio(3, 4)
              /\ options.dynamic_resizing = TRUE

\* C14 witness: new() has built the default map.
C14_Witness ==
    /\ pc = "map"
    /\ given = OptionsDefault
    /\ Len(items) = 16
    /\ size = 0

\* C11: with dynamic resizing on, load factor 0.75 and initial capacity 16,
\* puts of distinct keys alone drive the capacity above 16, on the 12th
\* distinct key at the latest: every put of the loop completes and adds one
\* entry, and with 12 entries the capacity is above 16. A put that resizes,
\* of a new key or of one already there, leaves every key inserted so far
\* retrievable with its latest value: the value just put for its own key,
\* and for every other key the value get returned before.
C11_GrowsByTwelfthKey ==
    /\ Usable
    /\ size = Cardinality(inserted)
    /\ Cardinality(inserted) >= 12 => Capacity > 16
    /\ \A k \in inserted : get(Self, k) # None
    /\ \A k \in GrowthKeys, v \in Values :
           LET r == put(Self, k, v) IN
           capacity_of(r.items) # Capacity =>
               /\ get(r, k) = Some(v)
               /\ \A k2 \in inserted \ {k} : get(r, k2) = get(Self, k2)

\* C11 witness: the 12th distinct key has been put, the capacity is 32, and
\* the twelve keys, whose digests are all different, are all retrievable.
C11_Witness ==
    /\ Cardinality(inserted) = 12
    /\ size = 12
    /\ Capacity = 32
    /\ \A k1, k2 \in inserted : k1 # k2 => hash(k1) # hash(k2)
    /\ \A k \in inserted : get(Self, k) # None

\* C12: with dynamic resizing disabled no sequence of put and pop changes
\* the capacity, whatever the load factor: it stays the initial capacity,
\* also while size is above capacity * load_factor.
C12_CapacityFixedWhenDisabled ==
    ~options.dynamic_resizing =>
        /\ Capacity = options.initial_capacity
        /\ Capacity = Knob(given.initial_capacity, 16)
        /\ Usable =>
              \A k \in Keys, v \in Values :
                  /\ capacity_of(put(Self, k, v).items) = Capacity
                  /\ capacity_of(pop(Self, k).items) = Capacity

\* C12 witness: the map of test_dynamic_resizing_off, capacity 3 and load
\* factor 0.5, holds three entries, twice its threshold of 1.5.
C12_Witness ==
    /\ ~options.dynamic_resizing
    /\ Capacity = 3
    /\ 2 * options.load_factor.num = options.load_factor.den
    /\ size = 3
    /\ size * options.load_factor.den > Capacity * options.load_factor.num

\* The places of the bucket array that hold an entry.
Places ==
    {at \in [bucket : 1..Capacity, slot : 1..NumKeys] :
        at.slot <= Len(items[at.bucket])}

\* How often x is among the items of a sequence.
Count(seq, x) == Cardinality({n \in 1..Len(seq) : seq[n] = x})

\* C15: each of iter(), iter_mut() and into_iter(), run to exhaustion on a
\* map in any reachable state, yields every entry that is stored exactly
\* once and nothing else, size() items in all, and from then on returns
\* the end of the sequence on every call.
C15_ViewsYieldEachEntryOnce ==
    LET shared == collect_iter(iter(Self))
        mutable == collect_iter_mut(iter_mut(Self))
        owned == collect_into_iter(into_iter(Self))
    IN /\ Len(shared.yielded) = size
       /\ Len(mutable.yielded) = size
       /\ Len(owned.yielded) = size
       /\ \A at \in Places :
              LET entry == items[at.bucket][at.slot] IN
              /\ Count(shared.yielded, Entry(entry.key, entry.value)) = 1
              /\ Count(mutable.yielded, Entry(entry.key, at)) = 1
              /\ Count(owned.yielded, entry) = 1
       /\ iter_next(shared.it).ret = None
       /\ iter_next(iter_next(shared.it).it).ret = None
       /\ iter_mut_next(mutable.it).ret = None
       /\ iter_mut_next(iter_mut_next(mutable.it).it).ret = None
       /\ into_iter_next(owned.it).ret = None
       /\ into_iter_next(into_iter_next(owned.it).it).ret = None

\* C15 witness: after an automatic resize and a pop the map holds two
\* entries in one bucket, with an empty bucket before it and one after it.
C15_Witness ==
    /\ pc = "map"
    /\ Capacity > options.initial_capacity
    /\ \E k \in inserted : Occurrences(k) = 0
    /\ \E i1, i2, i3 \in 1..Capacity :
           /\ i1 < i2 /\ i2 < i3
           /\ items[i1] = <<>>
           /\ Len(items[i2]) = 2
           /\ items[i3] = <<>>

\* The keys of a bucket array, bucket by bucket, in order.
KeyLayout(its) ==
    [i \in 1..Len(its) |-> [j \in 1..Len(its[i]) |-> its[i][j].key]]

\* C16: through iter_mut() values can be changed and nothing else. A value
\* stored through a yielded entry is what get returns for that key
\* afterwards; pointing the yielded key reference at another key leaves the
\* stored key as it is; the keys, the bucket and slot of each key, size
\* and capacity are unchanged, and so is the value of every other key.
C16_IterMutChangesValuesOnly ==
    LET yielded == collect_iter_mut(iter_mut(Self)).yielded IN
    \A n \in 1..Len(yielded), other \in Keys, v \in Values :
        LET r == write_value(Self, rebind_key(yielded[n], other), v) IN
        /\ r.size = size
        /\ capacity_of(r.items) = Capacity
        /\ KeyLayout(r.items) = KeyLayout(items)
        /\ get(r, yielded[n].key) = Some(v)
        /\ \A k \in Keys \ {yielded[n].key} : get(r, k) = get(Self, k)

\* C16 witness: two keys share a bucket, and their values differ, so that
\* a store through the view has changed one of them and not the other.
C16_Witness ==
    /\ pc = "map"
    /\ \E i \in 1..Capacity :
           /\ Len(items[i]) >= 2
           /\ items[i][1].value # items[i][2].value

\* C17: pop(k) of a key that is not present returns nothing and leaves
\* size, the capacity and every bucket, contents and order, as they are.
C17_PopAbsentChangesNothing ==
    Usable =>
        \A k \in Keys :
            ~Present(k) =>
                LET r == pop(Self, k) IN
                /\ r.ret = None
                /\ r.size = size
                /\ capacity_of(r.items) = Capacity
                /\ r.items = items
                /\ r.options = options

\* C17 witness: a key that was removed is looked for in a bucket that still
\* holds two entries.
C17_Witness ==
    /\ Usable
    /\ \E k \in inserted :
           /\ ~Present(k)
           /\ Len(items[find_key_index(k, Capacity) + 1]) = 2

\* C18: the threshold check runs after every put, on the overwrite path
\* too: with dynamic resizing on and size >= capacity * load_factor, a put
\* that overwrites the value of a key doubles the capacity and leaves size
\* and the value of every other key unchanged.
C18_OverwriteCanResize ==
    (Usable /\ options.dynamic_resizing /\ AtOrOver(size, Capacity)) =>
        \A k \in Keys, v \in Values :
            Present(k) =>
                LET r == put(Self, k, v) IN
                /\ capacity_of(r.items) = 2 * Capacity
                /\ r.size = size
                /\ r.ret = get(Self, k)
                /\ get(r, k) = Some(v)
                /\ \A k2 \in Keys \ {k} : get(r, k2) = get(Self, k2)

\* C18 witness: a manual resize has shrunk a map with dynamic resizing on
\* below its initial capacity, so that its entries are at or over the
\* threshold, and it holds a key whose value can be overwritten.
C18_Witness ==
    /\ Usable
    /\ options.dynamic_resizing
    /\ Capacity < options.initial_capacity
    /\ AtOrOver(size, Capacity)
    /\ \E k \in Keys : Present(k)

\* C19: resize(0) is not rejected. On an empty map it completes and leaves
\* capacity 0, and then get, put and pop abort on the remainder by zero. On
\* a map with entries it aborts on the first entry, after the old bucket
\* array was taken out of the map: the map is left with no buckets and with
\* a size that no longer is the number of its entries.
C19_ResizeZeroNotRejected ==
    LET r == resize(Self, 0) IN
    /\ Entries = <<>> =>
          /\ ~r.panicked
          /\ capacity_of(r.items) = 0
          /\ index_panics(r)
    /\ Entries # <<>> =>
          /\ r.panicked
          /\ r.items = <<>>
          /\ r.size = size
          /\ r.size > 0
          /\ r.size # Len(flatten(r.items))
          /\ index_panics(r)

\* C19 witness: resize(0) has aborted on a map with entries, built with a
\* capacity of at least 1: no bucket is left and size is not 0.
C19_Witness ==
    /\ options.initial_capacity >= 1
    /\ Capacity = 0
    /\ size > 0

\* C20: every entry is in the bucket whose index is the digest of its key
\* modulo the current capacity, so get, which scans that bucket alone,
\* finds every stored key and returns its value.
C20_EntriesInTheirBucket ==
    \A at \in Places :
        LET entry == items[at.bucket][at.slot] IN
        /\ hash(entry.key) % Capacity = at.bucket - 1
        /\ get(Self, entry.key) = Some(entry.value)

\* C20 witness: the capacity is not the initial one any more, and the
\* entries are spread over two buckets, one of them holding two.
C20_Witness ==
    /\ Capacity # options.initial_capacity
    /\ \E i1, i2 \in 1..Capacity :
           /\ i1 # i2
           /\ items[i1] # <<>>
           /\ Len(items[i2]) = 2

\* C21: the map refines a finite dictionary. Along every sequence of put,
\* pop and resize(n >= 1), on a map of any accepted configuration with at
\* least one bucket, with dynamic resizing on or off and with colliding
\* digests, and with the same puts and pops applied to the reference: get
\* of every key is what the reference holds for it, size is the number of
\* keys of the reference, and whatever put or pop is called next returns
\* what the same call returns on the reference.
C21_RefinesDictionary ==
    Usable =>
        /\ \A k \in Keys : get(Self, k) = dict_get(reference, k)
        /\ size = Cardinality(DOMAIN reference)
        /\ \A k \in Keys :
               /\ pop(Self, k).ret = dict_pop(reference, k).ret
               /\ \A v \in Values :
                      put(Self, k, v).ret = dict_put(reference, k, v).ret

\* C21 witness: after puts, a pop and a change of capacity the reference
\* holds two keys with the same digest, one of them with a value that a
\* later put of another value would replace, and lacks a key that was put.
C21_Witness ==
    /\ Usable
    /\ Capacity # options.initial_capacity
    /\ inserted \ DOMAIN reference # {}
    /\ \E k1, k2 \in DOMAIN reference :
           /\ SameDigest(k1, k2)
           /\ reference[k1] # reference[k2]
           /\ get(Self, k1) = Some(reference[k1])

\* C22: along every sequence of put and pop calls without a manual resize
\* the capacity is initial_capacity * 2^j for a j from 0 to the number of
\* puts made, so it never falls below an earlier capacity; whatever put is
\* called next leaves the capacity as it is or doubles it once, and
\* whatever pop is called next leaves it as it is. Only resize, called with
\* a number below the capacity, lowers it.
C22_OneDoublingPerPut ==
    /\ \E j \in 0..puts : Capacity = options.initial_capacity * 2^j
    /\ Usable =>
           /\ \A k \in Keys : capacity_of(pop(Self, k).items) = Capacity
           /\ \A k \in Keys, v \in Values :
                  capacity_of(put(Self, k, v).items) \in {Capacity, 2 * Capacity}
           /\ \A n \in 1..MaxResize :
                  capacity_of(resize(Self, n).items) = n

\* C22 witness: the capacity has doubled twice, in fewer doublings than
\* puts, a key has been popped since, and the next put of a new key would
\* double the capacity once more.
C22_Witness ==
    /\ Usable
    /\ Capacity = 4 * options.initial_capacity
    /\ puts > 2
    /\ inserted \ DOMAIN reference # {}
    /\ \E k \in Keys \ DOMAIN reference, v \in Values :
           capacity_of(put(Self, k, v).items) = 2 * Capacity

\* C23: a map created by new() has capacity 16, load factor 0.75 and
\* dynamic resizing on, and between any two of the put and pop calls made
\* on it its size, which is the number of its entries, is below 0.75 times
\* its capacity: the put that brings the size to the threshold doubles the
\* capacity, and one doubling is enough.
C23_DefaultMapUnderLoadFactor ==
    /\ options = [initial_capacity |-> 16,
                  load_factor |-> Ratio(3, 4),
                  dynamic_resizing |-> TRUE]
    /\ Capacity >= 16
    /\ size = Len(Entries)
    /\ size * 4 < 3 * Capacity

\* C23 witness: the map has been filled to the threshold of capacity 16,
\* has doubled, and holds fewer entries again after pops, among them two
\* keys of one bucket.
C23_Witness ==
    /\ Capacity = 32
    /\ Cardinality(inserted) >= 12
    /\ size < 12
    /\ \E i \in 1..Capacity : Len(items[i]) = 2

\* The items pushed and not yet popped, oldest first, and the most recent
\* of them as an Option.
RECURSIVE PendingFrom(_)
PendingFrom(i) ==
    IF i > Len(pushed) THEN <<>>
    ELSE (IF pushed[i].popped THEN <<>> ELSE <<pushed[i].item>>)
             \o PendingFrom(i + 1)
PendingItems == PendingFrom(1)
MostRecent ==
    IF PendingItems = <<>> THEN None
    ELSE Some(PendingItems[Len(PendingItems)])

\* C24: the list is a LIFO stack. After any interleaving of push and pop,
\* pop returns the most recently pushed item that no pop has returned yet,
\* or None when there is none, and leaves the older ones as they were;
\* peek returns that same item and removes nothing; iter yields the pending
\* items from the most recently pushed to the least recently pushed; and
\* an item pushed next is the one the pop after it returns, which leaves
\* the list as it is now.
C24_ListIsLifoStack ==
    LET n == Len(PendingItems)
        after_pop == [head |-> list_pop(List).head]
        yielded == list_collect(list_iter(List)).yielded
    IN /\ list_pop(List).ret = MostRecent
       /\ list_peek(List) = MostRecent
       /\ Len(yielded) = n
       /\ \A i \in 1..n : yielded[i] = PendingItems[n + 1 - i]
       /\ list_collect(list_iter(after_pop)).yielded =
              IF n = 0 THEN <<>> ELSE Tail(yielded)
       /\ \A item \in Items :
              LET after_push == list_push(List, item) IN
              /\ list_peek(after_push) = Some(item)
              /\ list_pop(after_push) = [head |-> head, ret |-> Some(item)]

\* C24 witness: pushes and pops have alternated: an item was popped that
\* was pushed after one and before another of the items still pending, and
\* the two most recent pending items differ.
C24_Witness ==
    /\ \E i, j, k \in 1..Len(pushed) :
           /\ i < j /\ j < k
           /\ ~pushed[i].popped /\ pushed[j].popped /\ ~pushed[k].popped
    /\ Len(PendingItems) >= 2
    /\ PendingItems[Len(PendingItems)] # PendingItems[Len(PendingItems) - 1]
    /\ list_peek(List) = Some(PendingItems[Len(PendingItems)])

====
